---------------------------- MODULE Spec2Model ----------------------------
(***************************************************************************)
(* A model of the eui48 library (src/src/lib.rs): the 6-byte MacAddress     *)
(* value, its bit predicates, the four formatters and the hand-written      *)
(* parser parse_str.                                                        *)
(*                                                                          *)
(* A Rust `char` is modelled by its Unicode code point (a natural number)   *)
(* and a `&str` / `String` by the sequence of its code points; s.len() is   *)
(* the number of bytes of its UTF-8 encoding, s.chars() the sequence        *)
(* itself.  A u8 is a natural number in 0..255.  Arrays are 0-based in the  *)
(* source and 1-based here: eui[k] of the source is eui[k+1] of the model.  *)
(***************************************************************************)
EXTENDS Naturals, Sequences, FiniteSets

(***************************************************************************)
(* Program constants                                                        *)
(***************************************************************************)
EUI48LEN == 6

U8MAX == 255

LEN_PLAIN == 14

LEN_DELIM == 17

X_INDEX == 1

(***************************************************************************)
(* Characters (code points)                                                 *)
(***************************************************************************)
CH_0 == 48
CH_9 == 57
CH_A == 65
CH_F == 70
CH_a == 97
CH_f == 102
CH_x == 120
CH_X == 88
CH_DASH == 45
CH_COLON == 58
CH_DOT == 46

\* char::len_utf8: the number of bytes of a char's UTF-8 encoding
len_utf8(c) == IF c < 128 THEN 1 ELSE IF c < 2048 THEN 2 ELSE IF c < 65536 THEN 3 ELSE 4

\* str::len: the length of the string in bytes
RECURSIVE str_len(_)
str_len(s) == IF s = <<>> THEN 0 ELSE len_utf8(Head(s)) + str_len(Tail(s))

\* a faulty variant: the letter ranges end one character late ('g', 'G')
IsHexDigit_g(c) ==
    \/ (CH_0 <= c /\ c <= CH_9)
    \/ (CH_a <= c /\ c <= CH_f + 1)
    \/ (CH_A <= c /\ c <= CH_F + 1)

\* the pattern '0'...'9'|'a'...'f'|'A'...'F'
IsHexDigit(c) ==
    \/ (CH_0 <= c /\ c <= CH_9)
    \/ (CH_a <= c /\ c <= CH_f)
    \/ (CH_A <= c /\ c <= CH_F)

\* a faulty variant: '.' is not among the separators
IsSeparator_nodot(c) == c = CH_DASH \/ c = CH_COLON

\* the pattern '-'|':'|'.'
IsSeparator(c) == c = CH_DASH \/ c = CH_COLON \/ c = CH_DOT

\* the pattern 'x'|'X'
IsX(c) == c = CH_x \/ c = CH_X

\* char::to_digit(16) on a character the hex-digit pattern matched
to_digit(c) ==
    IF CH_0 <= c /\ c <= CH_9 THEN c - CH_0
    ELSE IF CH_a <= c /\ c <= CH_f THEN c - CH_a + 10
    ELSE c - CH_A + 10

(***************************************************************************)
(* u8 arithmetic                                                            *)
(***************************************************************************)
\* bitwise and of two naturals
RECURSIVE BitAnd(_, _)
BitAnd(a, b) ==
    IF a = 0 \/ b = 0 THEN 0
    ELSE (a % 2) * (b % 2) + 2 * BitAnd(a \div 2, b \div 2)

RECURSIVE Pow2(_)
Pow2(n) == IF n = 0 THEN 1 ELSE 2 * Pow2(n - 1)

\* u8 << n : bits shifted out of the byte are lost
Shl8(a, n) == (a * Pow2(n)) % (U8MAX + 1)

(***************************************************************************)
(* MacAddress: constructors and predicates                                  *)
(***************************************************************************)
Eui48 == [1..EUI48LEN -> 0..U8MAX]

new(e) == e

nil == [i \in 1..EUI48LEN |-> 0]

broadcast == [i \in 1..EUI48LEN |-> U8MAX]

is_nil(m) == \A i \in 1..EUI48LEN : m[i] = 0

is_broadcast(m) == \A i \in 1..EUI48LEN : m[i] = U8MAX

\* self.eui[0] & 0 == 0        (Rust: & binds tighter than ==)
is_unicast(m) == BitAnd(m[1], 0) = 0

\* self.eui[0] & 1 != 0
is_multicast(m) == BitAnd(m[1], 1) # 0

\* a faulty variant: the mask is 1, the unicast/multicast bit
is_universal_bit0(m) == BitAnd(m[1], 1) = 0

\* self.eui[0] & 1 << 1 == 0   (Rust: << binds tighter than &, & tighter than ==)
is_universal(m) == BitAnd(m[1], Shl8(1, 1)) = 0

\* self.eui[0] & 1 << 1 != 0
is_local(m) == BitAnd(m[1], Shl8(1, 1)) # 0

(***************************************************************************)
(* Formatting                                                               *)
(***************************************************************************)
\* one lowercase hexadecimal digit
LowerHexDigit(d) == IF d < 10 THEN CH_0 + d ELSE CH_a + (d - 10)

\* {:x} : the digits of n in base 16, no leading zeros
RECURSIVE LowerHex(_)
LowerHex(n) ==
    IF n < 16 THEN <<LowerHexDigit(n)>>
    ELSE LowerHex(n \div 16) \o <<LowerHexDigit(n % 16)>>

RECURSIVE PadZero(_, _)
PadZero(s, w) == IF Len(s) >= w THEN s ELSE PadZero(<<CH_0>> \o s, w)

\* a faulty variant: {:x}, no zero padding
Fmt02x_unpadded(b) == LowerHex(b)

\* {:02x} : lowercase hexadecimal, zero-padded to a minimum width of 2
Fmt02x(b) == PadZero(LowerHex(b), 2)

to_canonical(m) ==
    Fmt02x(m[1]) \o <<CH_DASH>> \o Fmt02x(m[2]) \o <<CH_DASH>> \o Fmt02x(m[3])
    \o <<CH_DASH>> \o Fmt02x(m[4]) \o <<CH_DASH>> \o Fmt02x(m[5]) \o <<CH_DASH>>
    \o Fmt02x(m[6])

to_hex_string(m) ==
    Fmt02x(m[1]) \o <<CH_COLON>> \o Fmt02x(m[2]) \o <<CH_COLON>> \o Fmt02x(m[3])
    \o <<CH_COLON>> \o Fmt02x(m[4]) \o <<CH_COLON>> \o Fmt02x(m[5]) \o <<CH_COLON>>
    \o Fmt02x(m[6])

to_dot_string(m) ==
    Fmt02x(m[1]) \o Fmt02x(m[2]) \o <<CH_DOT>> \o Fmt02x(m[3]) \o Fmt02x(m[4])
    \o <<CH_DOT>> \o Fmt02x(m[5]) \o Fmt02x(m[6])

to_hexadecimal(m) ==
    <<CH_0, CH_x>> \o Fmt02x(m[1]) \o Fmt02x(m[2]) \o Fmt02x(m[3])
    \o Fmt02x(m[4]) \o Fmt02x(m[5]) \o Fmt02x(m[6])

MacAddressFormat == {"Canonical", "HexString", "DotNotation", "Hexadecimal"}

to_string(m, f) ==
    CASE f = "Canonical"   -> to_canonical(m)
      [] f = "HexString"   -> to_hex_string(m)
      [] f = "DotNotation" -> to_dot_string(m)
      [] f = "Hexadecimal" -> to_hexadecimal(m)

(***************************************************************************)
(* Parsing                                                                  *)
(***************************************************************************)
Ok(e) == [kind |-> "Ok", eui |-> e]

InvalidLength(n) == [kind |-> "InvalidLength", len |-> n]

InvalidCharacter(c, i) == [kind |-> "InvalidCharacter", ch |-> c, idx |-> i]

\* a Rust panic: an array index out of bounds, or an arithmetic overflow (which
\* panics where overflow checks are compiled in and wraps where they are not)
Abort(why) == [kind |-> "Abort", why |-> why]

Pending == [kind |-> "Pending"]

\* the locals of parse_str on entry
ScanInit == [offset |-> 0, hn |-> FALSE, eui |-> nil, ret |-> Pending]

\* a faulty variant: > where the code has >=
PastEnd_gt(offset) == offset > EUI48LEN

\* the guard at the head of the loop body
PastEnd(offset) == offset >= EUI48LEN

\* hn == false: eui[offset] = (c.to_digit(16).unwrap() as u8) << 4
HighNibble(st, c) ==
    IF st.offset >= EUI48LEN THEN [st EXCEPT !.ret = Abort("index out of bounds")]
    ELSE [st EXCEPT !.hn = TRUE,
                    !.eui = [st.eui EXCEPT ![st.offset + 1] = Shl8(to_digit(c), 4)]]

\* a faulty variant: = where the code has +=
LowNibble_assign(st, c) ==
    IF st.offset >= EUI48LEN THEN [st EXCEPT !.ret = Abort("index out of bounds")]
    ELSE [st EXCEPT !.hn = FALSE,
                    !.eui = [st.eui EXCEPT ![st.offset + 1] = to_digit(c)],
                    !.offset = @ + 1]

\* hn == true: eui[offset] += c.to_digit(16).unwrap() as u8; offset += 1
LowNibble(st, c) ==
    IF st.offset >= EUI48LEN THEN [st EXCEPT !.ret = Abort("index out of bounds")]
    ELSE IF st.eui[st.offset + 1] + to_digit(c) > U8MAX
         THEN [st EXCEPT !.ret = Abort("attempt to add with overflow")]
    ELSE [st EXCEPT !.hn = FALSE,
                    !.eui = [st.eui EXCEPT ![st.offset + 1] = @ + to_digit(c)],
                    !.offset = @ + 1]

\* a faulty variant: the high-nibble flag is not cleared
PrefixReset_keep_hn(st) == [st EXCEPT !.offset = 0]

\* 'x'|'X' at idx 1: offset = 0; hn = false
PrefixReset(st) == [st EXCEPT !.offset = 0, !.hn = FALSE]

\* one iteration of `for (idx, c) in s.chars().enumerate()`; n is s.len()
ScanChar(st, c, idx, n) ==
    IF PastEnd(st.offset) THEN [st EXCEPT !.ret = InvalidLength(n)]
    ELSE IF IsHexDigit(c) THEN
        (IF st.hn THEN LowNibble(st, c) ELSE HighNibble(st, c))
    ELSE IF IsSeparator(c) THEN st
    ELSE IF IsX(c) THEN
        (IF idx = X_INDEX THEN PrefixReset(st)
         ELSE [st EXCEPT !.ret = InvalidCharacter(c, idx)])
    ELSE [st EXCEPT !.ret = InvalidCharacter(c, idx)]

\* a faulty variant: no test of offset after the loop
ScanFinish_nocheck(st, n) == Ok(new(st.eui))

\* the test after the loop
ScanFinish(st, n) ==
    IF st.offset = EUI48LEN THEN Ok(new(st.eui)) ELSE InvalidLength(n)

\* the loop from character index idx on (0-based), returning on the first `return`
RECURSIVE ScanFrom(_, _, _)
ScanFrom(st, s, idx) ==
    IF st.ret.kind # "Pending" THEN st
    ELSE IF idx >= Len(s) THEN [st EXCEPT !.ret = ScanFinish(st, str_len(s))]
    ELSE ScanFrom(ScanChar(st, s[idx + 1], idx, str_len(s)), s, idx + 1)

\* match s.len() { 14|17 => {}, _ => return Err(InvalidLength(s.len())) }
LengthOk(s) == str_len(s) \in {LEN_PLAIN, LEN_DELIM}

parse_str(s) ==
    IF ~LengthOk(s) THEN InvalidLength(str_len(s))
    ELSE ScanFrom(ScanInit, s, 0).ret

(***************************************************************************)
(* Inputs                                                                   *)
(***************************************************************************)
\* the number of base addresses the address values are built from
NumBases == 3

\* the largest number of separator positions of a digit/separator shape
MaxSeps == 5

\* the largest number of characters of an edited input
MaxChars == 18

\* nil, broadcast, and the addresses of the repository's tests
BaseAddrs == <<
    <<0, 0, 0, 0, 0, 0>>,
    <<255, 255, 255, 255, 255, 255>>,
    <<18, 52, 86, 171, 205, 239>>,
    <<1, 0, 94, 171, 205, 239>>,
    <<1, 2, 3, 10, 11, 15>> >>

Min(a, b) == IF a < b THEN a ELSE b

\* every base address with one byte set to every u8 value
Addrs ==
    { [BaseAddrs[b] EXCEPT ![p] = v] :
        b \in 1..Min(NumBases, Len(BaseAddrs)), p \in 1..EUI48LEN, v \in 0..U8MAX }

\* the 22 hexadecimal digit characters
HexChars == <<48, 49, 50, 51, 52, 53, 54, 55, 56, 57,
              97, 98, 99, 100, 101, 102, 65, 66, 67, 68, 69, 70>>

SepChars == <<CH_DASH, CH_COLON, CH_DOT>>

\* the j-th (0-based) digit of a digit text, rotation r
DigitAt(j, r) == HexChars[((j + r) % Len(HexChars)) + 1]

\* the j-th (0-based) separator of a mixed-separator text, rotation r
SepAt(j, r) == SepChars[((j + r) % Len(SepChars)) + 1]

\* a string of n characters with separators at the positions P (1-based)
RECURSIVE Build(_, _, _, _, _, _, _)
Build(n, P, i, nd, ns, r, sr) ==
    IF i > n THEN <<>>
    ELSE IF i \in P THEN <<SepAt(ns, sr)>> \o Build(n, P, i + 1, nd, ns + 1, r, sr)
    ELSE <<DigitAt(nd, r)>> \o Build(n, P, i + 1, nd + 1, ns, r, sr)

Shape(n, P, r, sr) == Build(n, P, 1, 0, 0, r, sr)

\* the subsets of lo..hi of at most k elements
RECURSIVE Combos(_, _, _)
Combos(lo, hi, k) ==
    IF lo > hi \/ k = 0 THEN {{}}
    ELSE Combos(lo + 1, hi, k) \cup { P \cup {lo} : P \in Combos(lo + 1, hi, k - 1) }

SepSets(n) == Combos(1, n, MaxSeps)

\* n digits; n characters of dd:dd:...; n characters of 0xdddd...; of dddd.dddd.
BaseTexts(n) ==
    { Shape(n, {}, 0, 0),
      Shape(n, {i \in 1..n : i % 3 = 0}, 0, 1),
      Shape(n, {i \in 1..n : i % 5 = 0}, 0, 2),
      IF n >= 2 THEN [Shape(n, {}, 0, 0) EXCEPT ![1] = CH_0, ![2] = CH_x]
                ELSE Shape(n, {}, 0, 0) }

\* '!', 'g', 'x', U+00E9 (2 bytes), U+20AC (3 bytes), U+1F600 (4 bytes), ':'
SubstChars == {33, 103, CH_x, 233, 8364, 128512, CH_COLON}

\* '!', 'x', U+00E9, U+20AC
SubstChars2 == {33, CH_x, 233, 8364}

\* the inputs of the repository's tests (tests::test_parse_str and the others)
TestInputs == {
    <<48, 120, 49, 50, 51, 52, 53, 54, 65, 66, 67, 68, 69, 70>>,
    <<49, 50, 51, 52, 46, 53, 54, 65, 66, 46, 67, 68, 69, 70>>,
    <<49, 50, 58, 51, 52, 58, 53, 54, 58, 65, 66, 58, 67, 68, 58, 69, 70>>,
    <<49, 50, 45, 51, 52, 45, 53, 54, 45, 65, 66, 45, 67, 68, 45, 69, 70>>,
    <<>>,
    <<48>>,
    <<49, 50, 51, 52, 53, 54, 65, 66, 67, 68, 69, 70>>,
    <<49, 50, 51, 52, 53, 54, 55, 56, 57, 48, 65, 66, 67, 68>>,
    <<49, 50, 51, 52, 53, 54, 55, 56, 57, 48, 65, 66, 67, 68, 69, 70>>,
    <<48, 49, 50, 51, 52, 53, 54, 55, 56, 57, 48, 65, 66, 67, 68, 69, 70>>,
    <<48, 120, 49, 50, 51, 52, 53, 54, 55, 56, 57, 48, 65>>,
    <<48, 120, 49, 50, 51, 52, 53, 54, 55, 56, 57, 48, 65, 66, 67, 68, 69>>,
    <<48, 120, 48, 48, 58, 48, 48, 58, 48, 48, 58, 48, 48, 58>>,
    <<48, 120, 48, 48, 58, 48, 48, 58, 48, 48, 58, 48, 48, 58, 48, 48, 58>>,
    <<58, 58, 58, 58, 58, 58, 58, 58, 58, 58, 58, 58, 58, 58>>,
    <<58, 58, 58, 58, 58, 58, 58, 58, 58, 58, 58, 58, 58, 58, 58, 58, 58>>,
    <<48, 120, 48, 120, 48, 120, 48, 120, 48, 120, 48, 120, 48, 120>>,
    <<33, 48, 120, 48, 48, 48, 48, 48, 48, 48, 48, 48, 48, 48>>,
    <<48, 120, 48, 48, 48, 48, 48, 48, 48, 48, 48, 48, 48, 33>>,
    <<70, 69, 58, 48, 48, 58, 53, 69, 58, 65, 66, 58, 67, 68, 58, 69, 70>>,
    <<48, 49, 58, 48, 48, 58, 53, 69, 58, 65, 66, 58, 67, 68, 58, 69, 70>>,
    <<49, 53, 58, 50, 52, 58, 53, 54, 58, 65, 66, 58, 67, 68, 58, 69, 70>>,
    <<49, 54, 58, 51, 52, 58, 53, 54, 58, 65, 66, 58, 67, 68, 58, 69, 70>>,
    <<48, 49, 58, 48, 50, 58, 48, 51, 58, 48, 65, 58, 48, 98, 58, 48, 102>>,
    <<48, 120, 49, 50, 51, 52, 53, 54, 55, 56, 57, 48, 97, 98>> }

(***************************************************************************)
(* State                                                                    *)
(***************************************************************************)
VARIABLES
    mac,      \* the MacAddress under test (nil when the input is a raw string)
    fmt,      \* the notation mac was formatted in, or "none"
    pred,     \* the results of the four bit predicates on mac
    s,        \* the string handed to parse_str
    pc,       \* "new", "classified", "start", "scan", "done"
    idx,      \* parse_str: the index of the next character
    offset,   \* parse_str: offset into the Eui48 buffer
    hn,       \* parse_str: have we seen the high nibble yet?
    eui,      \* parse_str: the Eui48 buffer
    result    \* what parse_str returned, or Pending

vars == <<mac, fmt, pred, s, pc, idx, offset, hn, eui, result>>

value_vars == <<mac, fmt, pred>>

scan_vars == <<idx, offset, hn, eui>>

NoPred == [unicast |-> FALSE, multicast |-> FALSE, universal |-> FALSE, local |-> FALSE,
           nil |-> FALSE, broadcast |-> FALSE]

Locals == [offset |-> offset, hn |-> hn, eui |-> eui, ret |-> Pending]

ScanStart ==
    /\ idx = 0
    /\ offset = ScanInit.offset
    /\ hn = ScanInit.hn
    /\ eui = ScanInit.eui
    /\ result = Pending

\* a MacAddress built by new()
InitValue ==
    /\ mac \in Addrs
    /\ fmt = "none"
    /\ pred = NoPred
    /\ s = <<>>
    /\ pc = "new"
    /\ ScanStart

\* a raw string about to be parsed
InitText(t) ==
    /\ mac = nil
    /\ fmt = "none"
    /\ pred = NoPred
    /\ s = t
    /\ pc = "start"
    /\ ScanStart

\* the inputs of the repository's tests
InitTests == \E t \in TestInputs : InitText(t)

\* strings of 14 or 17 characters: digits, and at most MaxSeps separators anywhere
InitShapes ==
    \E n \in {LEN_PLAIN, LEN_DELIM} : \E P \in SepSets(n) : \E sr \in 0..2 :
        InitText(Shape(n, P, 0, sr))

\* the same with 'x' or 'X' as the second character
InitShapesX ==
    \E n \in {LEN_PLAIN, LEN_DELIM} : \E P \in SepSets(n) : \E xc \in {CH_x, CH_X} :
        /\ 2 \notin P
        /\ InitText([Shape(n, P, 3, 1) EXCEPT ![2] = xc])

\* any hex digit, then 'x' or 'X', then 12 hex digits
InitPrefix ==
    \E c0 \in 1..Len(HexChars) : \E xc \in {CH_x, CH_X} : \E r \in 0..(Len(HexChars) - 1) :
        InitText(<<HexChars[c0], xc>> \o Shape(2 * EUI48LEN, {}, r, 0))

\* texts of 0..MaxChars characters, as they are or with one character replaced
InitEdits1 ==
    \E n \in 0..MaxChars : \E t \in BaseTexts(n) :
        \/ InitText(t)
        \/ \E p \in 1..n : \E c \in SubstChars : InitText([t EXCEPT ![p] = c])

\* texts of 0..MaxChars characters with two characters replaced
InitEdits2 ==
    \E n \in 0..MaxChars : \E t \in BaseTexts(n) :
        \E p \in 1..n : \E q \in (p + 1)..n : \E c \in SubstChars2 : \E d \in SubstChars2 :
            InitText([t EXCEPT ![p] = c, ![q] = d])

\* the four renderings of the base addresses
InitFormatted ==
    \E b \in 1..Len(BaseAddrs) : \E f \in MacAddressFormat :
        InitText(to_string(BaseAddrs[b], f))

\* 12 digits and then separators among the last characters
InitTails ==
    \/ \E P \in Combos(9, LEN_PLAIN, MaxSeps) : InitText(Shape(LEN_PLAIN, P, 0, 0))
    \/ \E P \in Combos(11, LEN_DELIM, MaxSeps) : InitText(Shape(LEN_DELIM, P, 0, 0))

(***************************************************************************)
(* Actions                                                                  *)
(***************************************************************************)
\* the six predicates applied to mac
Classify ==
    /\ pc = "new"
    /\ pred' = [unicast |-> is_unicast(mac), multicast |-> is_multicast(mac),
                universal |-> is_universal(mac), local |-> is_local(mac),
                nil |-> is_nil(mac), broadcast |-> is_broadcast(mac)]
    /\ pc' = "classified"
    /\ UNCHANGED <<mac, fmt, s, result>>
    /\ UNCHANGED scan_vars

\* mac.to_string(f)
ToString ==
    /\ pc = "classified"
    /\ \E f \in MacAddressFormat :
        /\ fmt' = f
        /\ s' = to_string(mac, f)
    /\ pc' = "start"
    /\ UNCHANGED <<mac, pred, result>>
    /\ UNCHANGED scan_vars

\* MacAddress::parse_str(s), as one step
ParseStr ==
    /\ pc = "start"
    /\ result' = parse_str(s)
    /\ pc' = "done"
    /\ UNCHANGED <<s, value_vars>>
    /\ UNCHANGED scan_vars

\* parse_str, step by step: the length check on entry
LenCheck ==
    /\ pc = "start"
    /\ IF LengthOk(s)
       THEN /\ pc' = "scan"
            /\ result' = result
       ELSE /\ pc' = "done"
            /\ result' = InvalidLength(str_len(s))
    /\ UNCHANGED <<s, value_vars>>
    /\ UNCHANGED scan_vars

\* parse_str, step by step: one iteration of the loop
ScanStep ==
    /\ pc = "scan"
    /\ idx < Len(s)
    /\ LET st == ScanChar(Locals, s[idx + 1], idx, str_len(s)) IN
        /\ offset' = st.offset
        /\ hn' = st.hn
        /\ eui' = st.eui
        /\ result' = st.ret
        /\ IF st.ret.kind = "Pending"
           THEN idx' = idx + 1 /\ pc' = pc
           ELSE idx' = idx /\ pc' = "done"
    /\ UNCHANGED <<s, value_vars>>

\* parse_str, step by step: the test after the loop
ScanEnd ==
    /\ pc = "scan"
    /\ idx = Len(s)
    /\ result' = ScanFinish(Locals, str_len(s))
    /\ pc' = "done"
    /\ UNCHANGED <<s, value_vars>>
    /\ UNCHANGED scan_vars

(***************************************************************************)
(* Specifications                                                           *)
(***************************************************************************)
\* parse_str followed through its loop
Init == InitTests \/ InitPrefix \/ InitEdits1 \/ InitFormatted \/ InitTails \/ InitShapesX

Next == LenCheck \/ ScanStep \/ ScanEnd

Spec == Init /\ [][Next]_vars

\* parse_str as a function of its input
InitParse ==
    InitTests \/ InitShapes \/ InitShapesX \/ InitPrefix \/ InitEdits1 \/ InitEdits2

NextParse == ParseStr

SpecParse == InitParse /\ [][NextParse]_vars

\* a value: its predicates, its four renderings, and each rendering parsed back
NextValue == Classify \/ ToString \/ ParseStr

SpecValue == InitValue /\ [][NextValue]_vars

(***************************************************************************)
(* The vocabulary of the properties: the notations described by position    *)
(* and by table, independently of the arithmetic of the code                *)
(***************************************************************************)
HexDigitSet == { HexChars[i] : i \in 1..Len(HexChars) }

SeparatorSet == { SepChars[i] : i \in 1..Len(SepChars) }

XSet == {CH_x, CH_X}

\* the value of a hexadecimal digit character, by table
HexVal(c) ==
    CHOOSE v \in 0..15 : HexChars[v + 1] = c \/ (v >= 10 /\ HexChars[v + 7] = c)

\* the j-th (1..12) lowercase digit of an address: two per byte, high nibble first
AddrDigit(m, j) ==
    IF j % 2 = 1 THEN HexChars[(m[(j + 1) \div 2] \div 16) + 1]
    ELSE HexChars[(m[j \div 2] % 16) + 1]

\* the text of an address in a notation, character by character
Expected(m, f) ==
    CASE f = "Canonical" ->
            [i \in 1..17 |-> IF i % 3 = 0 THEN CH_DASH ELSE AddrDigit(m, i - (i \div 3))]
      [] f = "HexString" ->
            [i \in 1..17 |-> IF i % 3 = 0 THEN CH_COLON ELSE AddrDigit(m, i - (i \div 3))]
      [] f = "DotNotation" ->
            [i \in 1..14 |-> IF i % 5 = 0 THEN CH_DOT ELSE AddrDigit(m, i - (i \div 5))]
      [] f = "Hexadecimal" ->
            [i \in 1..14 |-> IF i = 1 THEN CH_0 ELSE IF i = 2 THEN CH_x
                             ELSE AddrDigit(m, i - 2)]

\* the hexadecimal digits of a text, in order
DigitsOf(t) == SelectSeq(t, LAMBDA c : c \in HexDigitSet)

\* the 6 bytes 12 digits spell: byte k is 16 * digit 2k + digit 2k+1 (0-based)
BytesOf(d) == [k \in 1..EUI48LEN |-> 16 * HexVal(d[2 * k - 1]) + HexVal(d[2 * k])]

\* the character at 1-based position i is one no notation contains there
IllegalAt(t, i) ==
    /\ t[i] \notin HexDigitSet
    /\ t[i] \notin SeparatorSet
    /\ ~(t[i] \in XSet /\ i = 2)

HasIllegal(t) == \E i \in 1..Len(t) : IllegalAt(t, i)

Leftmost(t) == CHOOSE i \in 1..Len(t) : IllegalAt(t, i) /\ \A j \in 1..(i - 1) : ~IllegalAt(t, j)

\* where the digits that count begin: after an 'x'/'X' second character, if any
FirstCounted(t) == IF Len(t) >= 2 /\ t[2] \in XSet THEN 3 ELSE 1

\* the number of hexadecimal digits, since any prefix reset, before position i
DigitsBefore(t, i) ==
    Cardinality({ j \in (IF i > 2 THEN FirstCounted(t) ELSE 1)..(i - 1) : t[j] \in HexDigitSet })

DigitsAfterReset(t) == DigitsBefore(t, Len(t) + 1)

\* exactly 12 hexadecimal digits and n - 12 separators, nothing else
DigitsAndSeparators(t, n) ==
    /\ Len(t) = n
    /\ \A i \in 1..n : t[i] \in HexDigitSet \cup SeparatorSet
    /\ Len(DigitsOf(t)) = 2 * EUI48LEN

\* a hex digit, 'x' or 'X', and 12 hex digits
PositionalPrefix(t) ==
    /\ Len(t) = LEN_PLAIN
    /\ t[1] \in HexDigitSet
    /\ t[2] \in XSet
    /\ \A i \in 3..LEN_PLAIN : t[i] \in HexDigitSet

(***************************************************************************)
(* C1                                                                       *)
(***************************************************************************)
\* C1: for every address, is_unicast() is true iff bit 0 of the first byte is 0,
\* is_multicast() is true iff that bit is 1, and exactly one of the two is true.
C1_UnicastMulticastComplement ==
    pc = "classified" =>
        /\ pred.unicast = (mac[1] % 2 = 0)
        /\ pred.multicast = (mac[1] % 2 = 1)
        /\ pred.unicast # pred.multicast

(***************************************************************************)
(* C2                                                                       *)
(***************************************************************************)
\* C2: for every address and each of the four notations, parsing the rendering
\* of the address returns Ok with the address itself.
C2_RoundTrip ==
    (pc = "done" /\ fmt # "none") => result = [kind |-> "Ok", eui |-> mac]

C2_Witness ==
    /\ pc = "done"
    /\ fmt = "HexString"
    /\ mac = <<18, 52, 86, 171, 205, 10>>
    /\ result.kind = "Ok"

(***************************************************************************)
(* C3                                                                       *)
(***************************************************************************)
\* C3: every input whose number of characters is neither 14 nor 17 is rejected
\* with InvalidLength(n), n being that number of characters, whatever the
\* characters are (multi-byte characters included).
C3_LengthCountsCharacters ==
    (pc = "done" /\ Len(s) \notin {LEN_PLAIN, LEN_DELIM}) =>
        result = [kind |-> "InvalidLength", len |-> Len(s)]

(***************************************************************************)
(* C4                                                                       *)
(***************************************************************************)
\* C4, as stated: every input of length 14 or 17 that contains an illegal
\* character fails at the leftmost one with InvalidCharacter(c, i).  Stated on
\* the inputs whose length is 14 or 17 in characters and in bytes alike.
C4_Original ==
    (/\ pc = "done"
     /\ Len(s) \in {LEN_PLAIN, LEN_DELIM}
     /\ str_len(s) = Len(s)
     /\ HasIllegal(s)) =>
        result = [kind |-> "InvalidCharacter", ch |-> s[Leftmost(s)], idx |-> Leftmost(s) - 1]

\* C4, amended: for every input that passes the length check (s.len() is 14 or
\* 17) and contains an illegal character, the leftmost at offset i: when fewer
\* than 12 hex digits (counted after any prefix reset) precede it, parse_str
\* returns InvalidCharacter(c, i); otherwise the sixth byte is complete before
\* the character is examined and parse_str returns InvalidLength(s.len()).
C4_LeftmostIllegalOrOverflow ==
    (pc = "done" /\ str_len(s) \in {LEN_PLAIN, LEN_DELIM} /\ HasIllegal(s)) =>
        LET i == Leftmost(s) IN
            IF DigitsBefore(s, i) < 2 * EUI48LEN
            THEN result = [kind |-> "InvalidCharacter", ch |-> s[i], idx |-> i - 1]
            ELSE result = [kind |-> "InvalidLength", len |-> str_len(s)]

C4_Witness ==
    /\ pc = "done"
    /\ HasIllegal(s)
    /\ DigitsBefore(s, Leftmost(s)) = 2 * EUI48LEN
    /\ result = [kind |-> "InvalidLength", len |-> LEN_DELIM]

(***************************************************************************)
(* C5                                                                       *)
(***************************************************************************)
\* C5: parse_str never aborts and ends with Ok, InvalidLength or
\* InvalidCharacter: in every state of the scan the destination index is in
\* 0..6, no byte is written at index 6 or above (the model aborts there), no
\* addition of a low nibble exceeds 255 (the model aborts there), and the scan
\* can always take its next step until it has returned.
C5_ScanNeverAborts ==
    /\ offset \in 0..EUI48LEN
    /\ idx \in 0..Len(s)
    /\ \A i \in 1..EUI48LEN : eui[i] \in 0..U8MAX
    /\ hn => (offset < EUI48LEN /\ eui[offset + 1] % 16 = 0)
    /\ result.kind \in {"Pending", "Ok", "InvalidLength", "InvalidCharacter"}
    /\ (pc = "done") = (result.kind # "Pending")
    /\ (pc # "done") => ENABLED Next

C5_Witness ==
    /\ pc = "done"
    /\ offset = EUI48LEN
    /\ idx < Len(s)
    /\ result.kind = "InvalidLength"

(***************************************************************************)
(* C6                                                                       *)
(***************************************************************************)
\* C6: to_string renders each byte as exactly two lowercase hexadecimal digits
\* in byte order: 17 characters xx-xx-xx-xx-xx-xx (Canonical), 17 characters
\* xx:xx:xx:xx:xx:xx (HexString), 14 characters xxxx.xxxx.xxxx (DotNotation),
\* 14 characters 0x and 12 digits (Hexadecimal), and nothing else.
C6_FixedShape ==
    (fmt # "none") =>
        /\ Len(s) = (IF fmt \in {"Canonical", "HexString"} THEN LEN_DELIM ELSE LEN_PLAIN)
        /\ s = Expected(mac, fmt)

C6_Witness ==
    /\ pc = "start"
    /\ fmt = "DotNotation"
    /\ mac = <<18, 52, 86, 171, 205, 9>>
    /\ s = <<49, 50, 51, 52, 46, 53, 54, 97, 98, 46, 99, 100, 48, 57>>

(***************************************************************************)
(* C7                                                                       *)
(***************************************************************************)
\* C7: for every address, is_universal() is true iff the bit of weight 2 of the
\* first byte is 0 and is_local() is true iff that bit is 1; nothing else matters.
C7_UniversalLocalBit1 ==
    pc = "classified" =>
        /\ pred.universal = ((mac[1] \div 2) % 2 = 0)
        /\ pred.local = ((mac[1] \div 2) % 2 = 1)
        /\ pred.universal # pred.local

C7_Witness ==
    /\ pc = "classified"
    /\ mac[1] = 22
    /\ pred.local
    /\ ~pred.universal

(***************************************************************************)
(* C8                                                                       *)
(***************************************************************************)
\* C8, as stated: every input of 17 characters made of 12 hex digits and 5
\* separators, or of 14 characters made of 12 hex digits and 2 separators, the
\* separators being any mix at any positions, is accepted, and byte k of the
\* result is 16 * value(digit 2k) + value(digit 2k+1).
C8_Original ==
    (pc = "done" /\ (DigitsAndSeparators(s, LEN_PLAIN) \/ DigitsAndSeparators(s, LEN_DELIM))) =>
        result = [kind |-> "Ok", eui |-> BytesOf(DigitsOf(s))]

\* C8, amended: such an input is accepted, with those bytes, when its last
\* character is a hex digit; when a separator follows the 12th digit it is
\* rejected with InvalidLength(length of the input).
C8_SeparatorsAnywhereButLast ==
    (pc = "done" /\ (DigitsAndSeparators(s, LEN_PLAIN) \/ DigitsAndSeparators(s, LEN_DELIM))) =>
        IF s[Len(s)] \in HexDigitSet
        THEN result = [kind |-> "Ok", eui |-> BytesOf(DigitsOf(s))]
        ELSE result = [kind |-> "InvalidLength", len |-> Len(s)]

C8_Witness ==
    /\ pc = "done"
    /\ DigitsAndSeparators(s, LEN_DELIM)
    /\ s[1] \in SeparatorSet
    /\ s[2] \in SeparatorSet
    /\ SeparatorSet \subseteq { s[i] : i \in 1..Len(s) }
    /\ result.kind = "Ok"

(***************************************************************************)
(* C9                                                                       *)
(***************************************************************************)
\* C9: parse_str returns Ok only when 12 hex digits were counted: every input
\* of length 14 or 17 made of legal characters only whose number of hex digits,
\* counted after any prefix reset, is not exactly 12 gets InvalidLength(length).
C9_WrongDigitCount ==
    /\ (pc = "done" /\ Len(s) \in {LEN_PLAIN, LEN_DELIM} /\ ~HasIllegal(s)
            /\ DigitsAfterReset(s) # 2 * EUI48LEN) =>
        result = [kind |-> "InvalidLength", len |-> Len(s)]
    /\ (pc = "done" /\ result.kind = "Ok") =>
        (~HasIllegal(s) /\ DigitsAfterReset(s) = 2 * EUI48LEN)

C9_Witness ==
    /\ pc = "done"
    /\ Len(s) = LEN_DELIM
    /\ ~HasIllegal(s)
    /\ DigitsAfterReset(s) = 2 * EUI48LEN - 1
    /\ result = [kind |-> "InvalidLength", len |-> LEN_DELIM]

(***************************************************************************)
(* C10                                                                      *)
(***************************************************************************)
\* C10: a 14-character input with 'x' or 'X' at offset 1, any hex digit at
\* offset 0 and 12 hex digits after is accepted, and its bytes are those the 12
\* digits spell: the character at offset 0 does not count.
C10_PositionalPrefix ==
    (pc = "done" /\ PositionalPrefix(s)) =>
        result = [kind |-> "Ok", eui |-> BytesOf(SubSeq(s, 3, LEN_PLAIN))]

C10_Witness ==
    /\ pc = "done"
    /\ PositionalPrefix(s)
    /\ s[1] = CH_F
    /\ s[2] = CH_X
    /\ result.kind = "Ok"
    /\ result.eui[1] \div 16 # 15

=============================================================================
